---- MODULE Spec2Model ----
(***************************************************************************)
(* NetworkTrafficGenerator of src/main.py: the hourly generation driver    *)
(* (generate_traffic_data), batch persistence (save_batch), the address    *)
(* sampler (generate_ip) and the metrics model (generate_traffic_metrics). *)
(*                                                                         *)
(* Time is counted in whole hours since 2024-01-01 00:00 (the start_date   *)
(* of main); datetime.strftime is modelled by building the string.         *)
(* Floats are kept in fixed point: multipliers and impact scores in        *)
(* tenths (1.5 is 15), their product in hundredths.                        *)
(* The flush threshold and the per-bucket record counts are scaled down    *)
(* (50000 -> Threshold, randint(300, 2000) -> randint(RecordsLow,          *)
(* RecordsHigh)); every formula is stated in terms of these names.         *)
(***************************************************************************)
EXTENDS Integers, Sequences, FiniteSets, TLC

VARIABLES
    events,        \* the event calendar passed to generate_traffic_data
    start_date,    \* start_date argument, in hours
    end_date,      \* end_date argument, in hours
    current,       \* local `current` of generate_traffic_data
    all_records,   \* local `all_records`, the in-memory batch
    event_impact,  \* local `event_impact` of the bucket being generated
    num_records,   \* local `num_records` of the bucket being generated
    done_records,  \* iterations of `for _ in range(num_records)` completed
    pc,            \* position in generate_traffic_data
    saved,         \* the save_batch calls so far: <<[batch_id, records]>>
    generated,     \* every record built so far, with its bucket and impact
    returned,      \* the list returned by generate_traffic_data
    ip_call,       \* last generate_ip call: pool, block, host and result
    record_ips,    \* source_ip and dest_ip of the last record assembled
    metrics_call,  \* last generate_traffic_metrics call: inputs and result
    batch_len,     \* len(all_records), in the run that keeps counts only
    flush_log      \* the save_batch calls of that run: id, file, size, hour

vars == <<events, start_date, end_date, current, all_records, event_impact,
          num_records, done_records, pc, saved, generated, returned,
          ip_call, record_ips, metrics_call, batch_len, flush_log>>

count_vars == <<batch_len, flush_log>>

sampler_vars == <<ip_call, record_ips, metrics_call>>

driver_vars == <<events, start_date, end_date, current, all_records,
                 event_impact, num_records, done_records, pc, saved,
                 generated, returned>>

----------------------------------------------------------------------------
(* Bounds of the model *)

\* stands for the 50000 of `if len(all_records) >= 50000`
Threshold == 5
\* stand for the arguments of np.random.randint(300, 2000)
RecordsLow == 2
RecordsHigh == 4
\* end_date - start_date is at most MaxHours hours
MaxHours == 4
\* number of events in the calendar
MaxEvents == 2
\* draws of a wide randint range are taken within EdgeDraws of either end
EdgeDraws == 6

----------------------------------------------------------------------------
(* numpy.random.randint(low, high): an integer in [low, high) *)

randint_high_inclusive(low, high) == [min |-> low, max |-> high]

randint(low, high) == [min |-> low, max |-> high - 1]

Min2(a, b) == IF a <= b THEN a ELSE b
Max2(a, b) == IF a >= b THEN a ELSE b

\* the draws of a range the model enumerates: all of a narrow range, the two
\* ends and the middle of a wide one
Draws(r) ==
    (r.min .. Min2(r.max, r.min + EdgeDraws))
    \cup (Max2(r.min, r.max - EdgeDraws) .. r.max)
    \cup (IF r.min <= r.max THEN {(r.min + r.max) \div 2} ELSE {})

----------------------------------------------------------------------------
(* datetime and strftime *)

Digit == <<"0", "1", "2", "3", "4", "5", "6", "7", "8", "9">>

D2(n) == Digit[((n \div 10) % 10) + 1] \o Digit[(n % 10) + 1]

D4(n) == D2(n \div 100) \o D2(n % 100)

\* days in the months of 2024
MonthDays == <<31, 29, 31, 30, 31, 30, 31, 31, 30, 31, 30, 31>>

RECURSIVE MonthOf(_, _)
\* month and day of month of the day-of-year `d` (0-based), from month `m` on
MonthOf(d, m) ==
    IF m = 12 \/ d < MonthDays[m]
    THEN [month |-> m, day |-> d + 1]
    ELSE MonthOf(d - MonthDays[m], m + 1)

\* the datetime fields of an hour count since 2024-01-01 00:00
DateTime(t) ==
    LET md == MonthOf(t \div 24, 1)
    IN  [year |-> 2024, month |-> md.month, day |-> md.day, hour |-> t % 24]

\* t.strftime('%Y-%m-%d')
strftime_date(t) ==
    LET dt == DateTime(t)
    IN  D4(dt.year) \o "-" \o D2(dt.month) \o "-" \o D2(dt.day)

\* t.strftime('%Y-%m-%d %H:%M:%S')
strftime_timestamp(t) ==
    strftime_date(t) \o " " \o D2(DateTime(t).hour) \o ":00:00"

\* t.strftime('%Y%m%d')
strftime_batch_id(t) ==
    LET dt == DateTime(t)
    IN  D4(dt.year) \o D2(dt.month) \o D2(dt.day)

\* s.startswith(prefix)
startswith(s, prefix) ==
    /\ Len(s) >= Len(prefix)
    /\ SubSeq(s, 1, Len(prefix)) = prefix

----------------------------------------------------------------------------
(* The event calendar *)

\* A value of a dict key: kind "str"/"num" carries val, kind "none" is None,
\* kind "missing" is an absent key.
Str(s) == [kind |-> "str", val |-> s]
Num(n) == [kind |-> "num", val |-> n]
None == [kind |-> "none", val |-> 0]
Missing == [kind |-> "missing", val |-> 0]

\* the events of the model: well-formed ones on the two dates a run covers,
\* malformed date ranges (empty, free text, None, key absent), scores in
\* tenths (1.0, 1.5, 2.0), None and absent
EventValues ==
    { [date_range |-> Str("2024-01-01 - 2024-01-03"), impact_score |-> Num(15)],
      [date_range |-> Str("2024-01-01 - 2024-01-03"), impact_score |-> Missing],
      [date_range |-> Str("2024-01-02"), impact_score |-> Num(20)],
      [date_range |-> Str("2024-01-02"), impact_score |-> None],
      [date_range |-> Str(""), impact_score |-> Num(20)],
      [date_range |-> Str("12 Jan 2024"), impact_score |-> Num(15)],
      [date_range |-> None, impact_score |-> Num(15)],
      [date_range |-> Missing, impact_score |-> Num(15)] }

Calendars == UNION { [1..n -> EventValues] : n \in 0..MaxEvents }

\* e['date_range'].startswith(prefix) raises KeyError on an absent key and
\* AttributeError on None
date_range_raises(e) == e.date_range.kind # "str"

\* e.get('impact_score', 1.0)
get_impact_score(e) ==
    IF e.impact_score.kind = "missing" THEN Num(10) ELSE e.impact_score

\* [e for e in events if e['date_range'].startswith(current.strftime('%Y-%m-%d'))]
relevant_events(evs, t) ==
    SelectSeq(evs, LAMBDA e : startswith(e.date_range.val, strftime_date(t)))

RECURSIVE MaxNum(_)
MaxNum(scores) ==
    IF Len(scores) = 1 THEN scores[1].val
    ELSE Max2(scores[1].val, MaxNum(Tail(scores)))

RECURSIVE MinNum(_)
MinNum(scores) ==
    IF Len(scores) = 1 THEN scores[1].val
    ELSE Min2(scores[1].val, MinNum(Tail(scores)))

\* max(scores, default=1.0): the default for an empty list, the element of a
\* one-element list (None included), TypeError when None is compared
py_max_as_min(scores) ==
    IF Len(scores) = 0 THEN Num(10)
    ELSE IF Len(scores) = 1 THEN scores[1]
    ELSE IF \E k \in 1..Len(scores) : scores[k].kind = "none"
         THEN [kind |-> "raise", val |-> 0]
    ELSE Num(MinNum(scores))

py_max(scores) ==
    IF Len(scores) = 0 THEN Num(10)
    ELSE IF Len(scores) = 1 THEN scores[1]
    ELSE IF \E k \in 1..Len(scores) : scores[k].kind = "none"
         THEN [kind |-> "raise", val |-> 0]
    ELSE Num(MaxNum(scores))

\* lines 179-180: the impact of the bucket at `t`, or kind "raise"
EventImpact(evs, t) ==
    IF \E k \in 1..Len(evs) : date_range_raises(evs[k])
    THEN [kind |-> "raise", val |-> 0]
    ELSE LET rel == relevant_events(evs, t)
         IN  py_max([k \in 1..Len(rel) |-> get_impact_score(rel[k])])

----------------------------------------------------------------------------
(* generate_traffic_data and save_batch *)

\* `while current < end_date`
LoopContinuesInclusive(t, e) == t <= e

LoopContinues(t, e) == t < e

\* `if len(all_records) >= 50000`
FlushDueStrict(records) == Len(records) > Threshold

FlushDue(records) == Len(records) >= Threshold

\* `all_records = []` after save_batch
BatchAfterFlushKept(records) == records

BatchAfterFlush(records) == <<>>

\* the record built by one iteration of the inner loop; `serial` stands for
\* its randomly drawn fields (addresses, ports, protocol, metrics), which
\* tell the records of one bucket apart
Record(t, serial) == [timestamp |-> strftime_timestamp(t), serial |-> serial]

\* save_batch(records, batch_id): the file it opens in 'w' mode and the rows
\* it writes after the header
save_batch(records, batch_id) ==
    [batch_id |-> batch_id,
     filename |-> "traffic_data_batch_" \o batch_id \o ".csv",
     records |-> records]

\* generate_traffic_metrics(current, event_impact) raises TypeError at
\* `time_multiplier * event_impact` when the impact is None
MetricsRaise(impact) == impact.kind # "num"

\* start_date of a run: 2024-01-01 22:00, so that a run of a few hours covers
\* the 22:00 and 23:00 buckets of one date and the first buckets of the next
StartDates == {22}

DriverInit ==
    /\ events \in Calendars
    /\ start_date \in StartDates
    /\ end_date \in start_date .. (start_date + MaxHours)
    /\ current = start_date
    /\ all_records = <<>>
    /\ event_impact = Num(10)
    /\ num_records = 0
    /\ done_records = 0
    /\ pc = "loop"
    /\ saved = <<>>
    /\ generated = <<>>
    /\ returned = <<>>

\* lines 177-183: the loop test holds, impact and record count of the bucket
BucketStart ==
    /\ pc = "loop"
    /\ LoopContinues(current, end_date)
    /\ EventImpact(events, current).kind # "raise"
    /\ event_impact' = EventImpact(events, current)
    /\ \E n \in Draws(randint(RecordsLow, RecordsHigh)) : num_records' = n
    /\ done_records' = 0
    /\ pc' = "records"
    /\ UNCHANGED <<events, start_date, end_date, current, all_records, saved,
                   generated, returned>>

\* lines 179-180 raise (KeyError, AttributeError or TypeError): the run aborts
BucketRaises ==
    /\ pc = "loop"
    /\ LoopContinues(current, end_date)
    /\ EventImpact(events, current).kind = "raise"
    /\ pc' = "raised"
    /\ UNCHANGED <<events, start_date, end_date, current, all_records,
                   event_impact, num_records, done_records, saved, generated,
                   returned>>

\* lines 184-198: one iteration of the record loop
GenerateRecord ==
    /\ pc = "records"
    /\ done_records < num_records
    /\ ~MetricsRaise(event_impact)
    /\ LET record == Record(current, Len(generated) + 1)
       IN  /\ all_records' = Append(all_records, record)
           /\ generated' = Append(generated,
                  [record |-> record, bucket |-> current,
                   impact |-> event_impact.val])
    /\ done_records' = done_records + 1
    /\ UNCHANGED <<events, start_date, end_date, current, event_impact,
                   num_records, pc, saved, returned>>

\* line 185 raises inside generate_traffic_metrics: the run aborts
RecordRaises ==
    /\ pc = "records"
    /\ done_records < num_records
    /\ MetricsRaise(event_impact)
    /\ pc' = "raised"
    /\ UNCHANGED <<events, start_date, end_date, current, all_records,
                   event_impact, num_records, done_records, saved, generated,
                   returned>>

\* lines 200-204: the bucket ends below the threshold
EndBucket ==
    /\ pc = "records"
    /\ done_records = num_records
    /\ current' = current + 1
    /\ ~FlushDue(all_records)
    /\ pc' = "loop"
    /\ UNCHANGED <<events, start_date, end_date, all_records, event_impact,
                   num_records, done_records, saved, generated, returned>>

\* lines 200-206: the bucket ends at or over the threshold and is flushed
EndBucketFlush ==
    /\ pc = "records"
    /\ done_records = num_records
    /\ current' = current + 1
    /\ FlushDue(all_records)
    /\ saved' = Append(saved,
                       save_batch(all_records, strftime_batch_id(current')))
    /\ all_records' = BatchAfterFlush(all_records)
    /\ pc' = "loop"
    /\ UNCHANGED <<events, start_date, end_date, event_impact, num_records,
                   done_records, generated, returned>>

\* lines 200-205, 212: save_batch raises (open or write fails): the run aborts
EndBucketFlushFails ==
    /\ pc = "records"
    /\ done_records = num_records
    /\ current' = current + 1
    /\ FlushDue(all_records)
    /\ pc' = "save_failed"
    /\ UNCHANGED <<events, start_date, end_date, all_records, event_impact,
                   num_records, done_records, saved, generated, returned>>

\* a driver that persists the remainder before returning
ReturnWithFinalFlush ==
    /\ pc = "loop"
    /\ ~LoopContinues(current, end_date)
    /\ saved' = IF all_records = <<>> THEN saved
                ELSE Append(saved,
                       save_batch(all_records, strftime_batch_id(current)))
    /\ returned' = all_records
    /\ pc' = "done"
    /\ UNCHANGED <<events, start_date, end_date, current, all_records,
                   event_impact, num_records, done_records, generated>>

\* lines 177, 208: the loop test fails and the batch is returned
Return ==
    /\ pc = "loop"
    /\ ~LoopContinues(current, end_date)
    /\ returned' = all_records
    /\ pc' = "done"
    /\ UNCHANGED <<events, start_date, end_date, current, all_records,
                   event_impact, num_records, done_records, saved, generated>>

----------------------------------------------------------------------------
(* ipaddress and generate_ip *)

\* the decimal digits of a string, as a number
RECURSIVE ToInt(_, _)
ToInt(s, acc) ==
    IF Len(s) = 0 THEN acc
    ELSE LET c == SubSeq(s, 1, 1)
             d == CHOOSE v \in 0..9 : Digit[v + 1] = c
         IN  ToInt(SubSeq(s, 2, Len(s)), 10 * acc + d)

\* s.split(sep) for a one-character separator
RECURSIVE Split(_, _, _)
Split(s, sep, word) ==
    IF Len(s) = 0 THEN <<word>>
    ELSE IF SubSeq(s, 1, 1) = sep
         THEN <<word>> \o Split(SubSeq(s, 2, Len(s)), sep, "")
    ELSE Split(SubSeq(s, 2, Len(s)), sep, word \o SubSeq(s, 1, 1))

\* str(n) for n >= 0
RECURSIVE Dec(_)
Dec(n) == IF n < 10 THEN Digit[n + 1] ELSE Dec(n \div 10) \o Digit[(n % 10) + 1]

\* A 32-bit address is kept as its two 16-bit halves.
\* ipaddress.IPv4Address(s)
IPv4Address(s) ==
    LET o == Split(s, ".", "")
    IN  [hi |-> ToInt(o[1], 0) * 256 + ToInt(o[2], 0),
         lo |-> ToInt(o[3], 0) * 256 + ToInt(o[4], 0)]

\* str(address)
str_address(a) ==
    Dec(a.hi \div 256) \o "." \o Dec(a.hi % 256) \o "."
    \o Dec(a.lo \div 256) \o "." \o Dec(a.lo % 256)

\* ipaddress.ip_network(cidr)
ip_network(cidr) ==
    LET parts == Split(cidr, "/", "")
    IN  [network_address |-> IPv4Address(parts[1]),
         prefixlen |-> ToInt(parts[2], 0)]

\* network.num_addresses
num_addresses(network) == 2 ^ (32 - network.prefixlen)

\* network[n] for n >= 0: the address n after the network address
network_getitem(network, n) ==
    LET lo == network.network_address.lo + (n % 65536)
        hi == network.network_address.hi + (n \div 65536) + (lo \div 65536)
    IN  [hi |-> hi % 65536, lo |-> lo % 65536]

\* self.ip_ranges
ip_ranges ==
    [qatar_isps |-> <<"178.152.0.0/15", "37.208.0.0/13", "82.148.96.0/19">>,
     data_centers |-> <<"185.176.0.0/16", "157.167.0.0/16">>,
     cdns |-> <<"104.16.0.0/12", "199.27.128.0/21">>]

\* np.random.choice(seq): any element
choice(seq) == {seq[k] : k \in 1..Len(seq)}

\* generate_ip(ip_range): every outcome, with the block and host drawn
generate_ip(ip_range) ==
    UNION { LET network == ip_network(cidr)
            IN  { [pool |-> ip_range, block |-> cidr, host |-> host,
                   address |-> str_address(network_getitem(network, host))] :
                  host \in Draws(randint(0, num_addresses(network) - 1)) } :
            cidr \in choice(ip_ranges[ip_range]) }

----------------------------------------------------------------------------
(* generate_traffic_metrics *)

\* `1.5 if 9 <= hour <= 17 else (1.3 if 18 <= hour <= 23 else 0.7)`, in tenths
time_multiplier(hour) ==
    IF 9 <= hour /\ hour <= 17 THEN 15
    ELSE IF 18 <= hour /\ hour <= 23 THEN 13
    ELSE 7

\* the integer parts of the draws of lognormal(mean=10, sigma=1) * 1000 that
\* the model takes: around the multiples of 1460 where base_packets changes,
\* and the median of the distribution
BaseBytesDraws == {1, 730, 1459, 1460, 2919, 2920, 4379, 4380, 14600, 22026465}

\* the 'packets' of generate_traffic_metrics: base_packets scaled by
\* final_multiplier (hundredths) and truncated by int()
packets_of(base_bytes, hour, impact) ==
    LET base_packets == Max2(1, base_bytes \div 1460)
        final_multiplier == time_multiplier(hour) * impact
    IN  (base_packets * final_multiplier) \div 100

CountIdle ==
    /\ batch_len = 0
    /\ flush_log = <<>>

SamplerIdle ==
    /\ ip_call = [pool |-> "", block |-> "", host |-> 0, address |-> ""]
    /\ record_ips = [source_ip |-> "", dest_ip |-> ""]
    /\ metrics_call = [hour |-> 0, event_impact |-> 10, base_bytes |-> 0,
                       packets |-> 0]

Init ==
    /\ DriverInit
    /\ SamplerIdle
    /\ CountIdle

Next ==
    \/ BucketStart /\ UNCHANGED <<sampler_vars, count_vars>>
    \/ BucketRaises /\ UNCHANGED <<sampler_vars, count_vars>>
    \/ GenerateRecord /\ UNCHANGED <<sampler_vars, count_vars>>
    \/ RecordRaises /\ UNCHANGED <<sampler_vars, count_vars>>
    \/ EndBucket /\ UNCHANGED <<sampler_vars, count_vars>>
    \/ EndBucketFlush /\ UNCHANGED <<sampler_vars, count_vars>>
    \/ EndBucketFlushFails /\ UNCHANGED <<sampler_vars, count_vars>>
    \/ Return /\ UNCHANGED <<sampler_vars, count_vars>>

Spec == Init /\ [][Next]_vars

----------------------------------------------------------------------------
(* The samplers on their own: generate_ip and generate_traffic_metrics are
   each called once, with every input of their bounded domains *)

DriverIdle ==
    /\ events = <<>>
    /\ start_date = 0
    /\ end_date = 0
    /\ current = 0
    /\ all_records = <<>>
    /\ event_impact = Num(10)
    /\ num_records = 0
    /\ done_records = 0
    /\ pc = "idle"
    /\ saved = <<>>
    /\ generated = <<>>
    /\ returned = <<>>

\* a call generate_ip(pool) for a configured pool
CallGenerateIp ==
    /\ ip_call.address = ""
    /\ \E pool \in DOMAIN ip_ranges : ip_call' \in generate_ip(pool)
    /\ UNCHANGED <<record_ips, metrics_call>>

\* lines 188-189: the two generate_ip calls that give a record its addresses
RecordIps ==
    /\ ip_call.address = ""
    /\ \E src \in generate_ip("qatar_isps"), dst \in generate_ip("cdns") :
           /\ record_ips' = [source_ip |-> src.address, dest_ip |-> dst.address]
           /\ ip_call' = dst
    /\ UNCHANGED metrics_call

InitIp == DriverIdle /\ SamplerIdle /\ CountIdle

NextIp ==
    \/ CallGenerateIp /\ UNCHANGED <<driver_vars, count_vars>>
    \/ RecordIps /\ UNCHANGED <<driver_vars, count_vars>>

SpecIp == InitIp /\ [][NextIp]_vars

\* a call generate_traffic_metrics(timestamp, event_impact) with a numeric
\* impact in [1.0, 2.0] and a base byte draw
CallGenerateTrafficMetrics ==
    /\ metrics_call.base_bytes = 0
    /\ \E hour \in 0..23, impact \in 10..20, base_bytes \in BaseBytesDraws :
           metrics_call' = [hour |-> hour, event_impact |-> impact,
                            base_bytes |-> base_bytes,
                            packets |-> packets_of(base_bytes, hour, impact)]
    /\ UNCHANGED <<ip_call, record_ips>>

InitMetrics == DriverIdle /\ SamplerIdle /\ CountIdle

NextMetrics == CallGenerateTrafficMetrics /\ UNCHANGED <<driver_vars, count_vars>>

SpecMetrics == InitMetrics /\ [][NextMetrics]_vars

----------------------------------------------------------------------------
(* generate_traffic_data at its real scale: the threshold and the record
   counts are those of the source, and of the batch only its length is
   kept; the record loop of a bucket appends the num_records drawn *)

\* the 50000 of `if len(all_records) >= 50000`
FlushThreshold == 50000
\* the arguments of np.random.randint(300, 2000)
NumRecordsLow == 300
NumRecordsHigh == 2000
\* end_date - start_date of the runs at real scale, in hours
MaxCountHours == 54

\* the draws of num_records taken at real scale: both ends and the middle
CountDraws(r) == {r.min, (r.min + r.max) \div 2, r.max}

\* `if len(all_records) >= 50000` on the length
LenFlushDue(n) == n >= FlushThreshold

\* the length of `all_records = []` after save_batch
LenAfterFlushKept(n) == n

LenAfterFlush(n) == 0

\* f'traffic_data_batch_{batch_id}.csv'
filename_of(batch_id) == "traffic_data_batch_" \o batch_id \o ".csv"

CountStartDates == {0, 22}

CountInit ==
    /\ events = <<>>
    /\ start_date \in CountStartDates
    /\ end_date = start_date + MaxCountHours
    /\ current = start_date
    /\ all_records = <<>>
    /\ event_impact = Num(10)
    /\ num_records = 0
    /\ done_records = 0
    /\ pc = "loop"
    /\ saved = <<>>
    /\ generated = <<>>
    /\ returned = <<>>
    /\ batch_len = 0
    /\ flush_log = <<>>

\* lines 177-204: a bucket that ends below the threshold
CountBucket ==
    /\ pc = "loop"
    /\ LoopContinues(current, end_date)
    /\ \E n \in CountDraws(randint(NumRecordsLow, NumRecordsHigh)) :
           /\ ~LenFlushDue(batch_len + n)
           /\ batch_len' = batch_len + n
    /\ current' = current + 1
    /\ UNCHANGED <<events, start_date, end_date, all_records, event_impact,
                   num_records, done_records, pc, saved, generated, returned,
                   flush_log>>

\* lines 177-206: a bucket that ends at or over the threshold and is flushed
CountBucketFlush ==
    /\ pc = "loop"
    /\ LoopContinues(current, end_date)
    /\ current' = current + 1
    /\ \E n \in CountDraws(randint(NumRecordsLow, NumRecordsHigh)) :
           /\ LenFlushDue(batch_len + n)
           /\ flush_log' = Append(flush_log,
                  [batch_id |-> strftime_batch_id(current'),
                   filename |-> filename_of(strftime_batch_id(current')),
                   size |-> batch_len + n,
                   at |-> current'])
           /\ batch_len' = LenAfterFlush(batch_len + n)
    /\ UNCHANGED <<events, start_date, end_date, all_records, event_impact,
                   num_records, done_records, pc, saved, generated, returned>>

\* lines 177-205, 212: save_batch raises: the run aborts
CountBucketFlushFails ==
    /\ pc = "loop"
    /\ LoopContinues(current, end_date)
    /\ current' = current + 1
    /\ \E n \in CountDraws(randint(NumRecordsLow, NumRecordsHigh)) :
           /\ LenFlushDue(batch_len + n)
           /\ batch_len' = batch_len + n
    /\ pc' = "save_failed"
    /\ UNCHANGED <<events, start_date, end_date, all_records, event_impact,
                   num_records, done_records, saved, generated, returned,
                   flush_log>>

\* lines 177, 208: the loop test fails and the run returns
CountReturn ==
    /\ pc = "loop"
    /\ ~LoopContinues(current, end_date)
    /\ pc' = "done"
    /\ UNCHANGED <<events, start_date, end_date, current, all_records,
                   event_impact, num_records, done_records, saved, generated,
                   returned, batch_len, flush_log>>

InitCount == CountInit /\ SamplerIdle

NextCount ==
    \/ CountBucket /\ UNCHANGED sampler_vars
    \/ CountBucketFlush /\ UNCHANGED sampler_vars
    \/ CountBucketFlushFails /\ UNCHANGED sampler_vars
    \/ CountReturn /\ UNCHANGED sampler_vars

SpecCount == InitCount /\ [][NextCount]_vars

----------------------------------------------------------------------------
(* Derived views of a run *)

Terminal == {"done", "raised", "save_failed"}

RECURSIVE ConcatRecords(_)
\* the record lists passed to save_batch, concatenated in call order
ConcatRecords(calls) ==
    IF calls = <<>> THEN <<>>
    ELSE calls[1].records \o ConcatRecords(Tail(calls))

\* all records generated so far, in generation order
GeneratedRecords == [k \in 1..Len(generated) |-> generated[k].record]

\* the indices of the records generated for bucket b
OfBucket(b) == {k \in 1..Len(generated) : generated[k].bucket = b}

\* the bucket of the last record of a save_batch call
FlushedBucket(call) ==
    generated[call.records[Len(call.records)].serial].bucket

\* the largest record count randint(RecordsLow, RecordsHigh) draws
MaxPerBucket == RecordsHigh - 1

----------------------------------------------------------------------------
(* C1 *)

----------------------------------------------------------------------------
(* C2 *)

----------------------------------------------------------------------------
(* C4 *)

\* C4 (as stated): every save_batch call gets as batch id the YYYYMMDD date
\* of the bucket whose records were appended last, and writes the file
\* traffic_data_batch_<that date>.csv, for every hour of day of that bucket.
C4_BatchIdIsDateOfFlushedBucket ==
    \A k \in 1..Len(saved) :
        /\ saved[k].batch_id = strftime_batch_id(FlushedBucket(saved[k]))
        /\ saved[k].filename =
               "traffic_data_batch_"
               \o strftime_batch_id(FlushedBucket(saved[k])) \o ".csv"

----------------------------------------------------------------------------
(* C5 *)

----------------------------------------------------------------------------
(* C6 *)

\* the events whose date_range starts with the date of bucket b
Matching(b) ==
    {j \in 1..Len(events) :
        /\ events[j].date_range.kind = "str"
        /\ startswith(events[j].date_range.val, strftime_date(b))}

\* the impact score of event j in tenths, an absent score counting as 1.0
ScoreOf(j) ==
    IF events[j].impact_score.kind = "missing" THEN 10
    ELSE events[j].impact_score.val

\* the largest score among the events matching bucket b, 1.0 when none does
ExpectedImpact(b) ==
    IF Matching(b) = {} THEN 10
    ELSE CHOOSE m \in {ScoreOf(j) : j \in Matching(b)} :
             \A j \in Matching(b) : ScoreOf(j) <= m

\* C6: the impact passed to generate_traffic_metrics for every record is the
\* largest impact_score (absent counting as 1.0) of the events whose
\* date_range starts with the record's bucket date, 1.0 when none matches;
\* buckets of one calendar date use one impact, and the impact is in
\* [1.0, 2.0] when every event score is.
C6_ImpactIsMaxOfMatchingEvents ==
    LET buckets == {generated[k].bucket : k \in 1..Len(generated)}
    IN  /\ \A b \in buckets :
               LET expected == ExpectedImpact(b)
               IN  \A k \in OfBucket(b) : generated[k].impact = expected
        /\ \A b, c \in buckets :
               strftime_date(b) = strftime_date(c) =>
                   \A k \in OfBucket(b), l \in OfBucket(c) :
                       generated[k].impact = generated[l].impact
        /\ (\A j \in 1..Len(events) : ScoreOf(j) \in 10..20)
               => \A k \in 1..Len(generated) : generated[k].impact \in 10..20

\* C6 witness: a record of a bucket matched by two events of different
\* scores, generated after a record of another date with another impact
C6_Witness ==
    \E k, l \in 1..Len(generated) :
        /\ Cardinality(Matching(generated[k].bucket)) = 2
        /\ \E i, j \in Matching(generated[k].bucket) : ScoreOf(i) # ScoreOf(j)
        /\ generated[l].impact # generated[k].impact

----------------------------------------------------------------------------
(* C7 *)

\* C7 (as stated): no event of the calendar, whatever its date_range (empty,
\* free text, absent, not a string) or impact_score (absent, None), makes
\* generate_traffic_data abort.
C7_CalendarErrorsNeverFatal == pc # "raised"

----------------------------------------------------------------------------
(* C9 *)

\* what is left of a run: the buckets from `current` on, each worth more
\* steps than the largest bucket takes, less the steps taken in the bucket
RemainingWork ==
    LET buckets == IF current < end_date THEN end_date - current ELSE 0
        perBucket == MaxPerBucket + 3
    IN  IF pc \in Terminal THEN 0
        ELSE IF pc = "loop" THEN buckets * perBucket + 1
        ELSE buckets * perBucket - 1 - done_records

\* the buckets of a run and their records, in every state
BucketsInOrder ==
    /\ \A k \in 1..Len(generated) :
           /\ generated[k].bucket \in start_date .. (end_date - 1)
           /\ k > 1 => generated[k - 1].bucket <= generated[k].bucket
    /\ \A b \in {generated[k].bucket : k \in 1..Len(generated)} :
           LET stamp == strftime_timestamp(b)
           IN  \A k \in OfBucket(b) : generated[k].record.timestamp = stamp
    /\ \A b \in start_date .. (current - 1) :
           /\ Cardinality(OfBucket(b)) >= RecordsLow
           /\ Cardinality(OfBucket(b)) <= RecordsHigh
    /\ pc = "done" =>
           /\ current = Max2(start_date, end_date)
           /\ {generated[k].bucket : k \in 1..Len(generated)}
                  = start_date .. (end_date - 1)
           /\ Len(generated) >= RecordsLow * (end_date - start_date)
           /\ Len(generated) <= RecordsHigh * (end_date - start_date)
    /\ pc \notin Terminal => ENABLED Next
    /\ RemainingWork >= 0

\* C9: the buckets of a run are start_date, start_date + 1h, ... in
\* increasing order and below end_date; a finished bucket holds between
\* RecordsLow and RecordsHigh records, each stamped with its bucket's
\* timestamp; a run that returns has processed exactly the N = end_date -
\* start_date buckets before end_date and generated between RecordsLow * N
\* and RecordsHigh * N records; the run terminates: a step is possible
\* until it has ended, and every step lessens the work that remains.
C9_TerminatesAfterNBuckets ==
    /\ []BucketsInOrder
    /\ [][RemainingWork' < RemainingWork]_vars

\* C9 witness: a run over two hours has returned
C9_Witness ==
    /\ pc = "done"
    /\ end_date = start_date + 2
    /\ Len(generated) >= 2 * RecordsLow

----------------------------------------------------------------------------
(* C10 *)

\* C10: while no save_batch call has failed, the records passed to
\* save_batch, in call order, followed by the in-memory batch are the
\* records generated so far in generation order; no record occurs twice;
\* the batch is empty when the last record generated has been flushed; the
\* returned list is the batch.
C10_RecordConservation ==
    pc # "save_failed" =>
        /\ ConcatRecords(saved) \o all_records = GeneratedRecords
        /\ \A k, l \in 1..Len(generated) :
               generated[k].record = generated[l].record => k = l
        /\ (saved # <<>> /\ Len(ConcatRecords(saved)) = Len(generated))
               => all_records = <<>>
        /\ pc = "done" => returned = all_records

\* C10 witness: records were appended after a flush
C10_Witness ==
    /\ pc # "save_failed"
    /\ saved # <<>>
    /\ all_records # <<>>

----------------------------------------------------------------------------
(* C3 *)

\* C3 (as stated): every generate_traffic_metrics result has packets >= 1,
\* for every positive base byte draw, hour of day and impact in [1.0, 2.0].
C3_PacketsAtLeastOne ==
    metrics_call.base_bytes > 0 => metrics_call.packets >= 1

----------------------------------------------------------------------------
(* C8 *)

\* the first `bits` bits of a 32-bit address, kept as two 16-bit halves
Prefix(a, bits) ==
    IF bits <= 16 THEN <<a.hi \div (2 ^ (16 - bits)), 0>>
    ELSE <<a.hi, a.lo \div (2 ^ (32 - bits))>>

\* the address written `address` lies in the block written `cidr`
InBlock(address, cidr) ==
    LET network == ip_network(cidr)
    IN  Prefix(IPv4Address(address), network.prefixlen)
            = Prefix(network.network_address, network.prefixlen)

\* the last address of the block: every host bit set
LastAddress(cidr) ==
    LET network == ip_network(cidr)
        a == network.network_address
        bits == network.prefixlen
    IN  IF bits <= 16
        THEN [hi |-> a.hi + 2 ^ (16 - bits) - 1, lo |-> 65535]
        ELSE [hi |-> a.hi, lo |-> a.lo + 2 ^ (32 - bits) - 1]

InPool(address, pool) == \E cidr \in choice(ip_ranges[pool]) : InBlock(address, cidr)

\* C8: generate_ip returns an address of a block of the pool asked for: the
\* host offset is in [0, num_addresses - 1), the address lies in the block
\* drawn and is not the block's last address; a record's source_ip is in a
\* qatar_isps block and its dest_ip in a cdns block.
C8_AddressInsidePool ==
    /\ ip_call.address # "" =>
           /\ ip_call.block \in choice(ip_ranges[ip_call.pool])
           /\ ip_call.host >= 0
           /\ ip_call.host < num_addresses(ip_network(ip_call.block)) - 1
           /\ InBlock(ip_call.address, ip_call.block)
           /\ ip_call.address # str_address(LastAddress(ip_call.block))
    /\ record_ips.source_ip # "" =>
           /\ InPool(record_ips.source_ip, "qatar_isps")
           /\ InPool(record_ips.dest_ip, "cdns")

\* C8 witness: the highest host offset of a block has been drawn, and a
\* record's addresses assembled
C8_Witness ==
    /\ ip_call.address # ""
    /\ ip_call.host = num_addresses(ip_network(ip_call.block)) - 2
    /\ record_ips.source_ip # ""

----------------------------------------------------------------------------
(* C11 *)

\* C11: in one run no two save_batch calls get the same batch id, so none
\* opens the file an earlier call of the run wrote; two consecutive calls
\* are more than 24 hour buckets apart, each with a batch that reached the
\* threshold since the batch was last emptied.
C11_OneFilePerFlush ==
    /\ \A i, j \in 1..Len(flush_log) :
           i # j => /\ flush_log[i].batch_id # flush_log[j].batch_id
                    /\ flush_log[i].filename # flush_log[j].filename
    /\ \A i \in 1..Len(flush_log) :
           /\ flush_log[i].size >= FlushThreshold
           /\ flush_log[i].at
                  - (IF i = 1 THEN start_date ELSE flush_log[i - 1].at) > 24
           /\ i > 1 => strftime_date(flush_log[i].at)
                           # strftime_date(flush_log[i - 1].at)

\* C11 witness: a run has called save_batch twice
C11_Witness == Len(flush_log) >= 2

====
